---- MODULE Spec2Model ----
(***************************************************************************)
(* Model of the crawl-then-ingest pipeline of async_complete_db.py and the *)
(* helpers of parser_async.py it calls.                                    *)
(*                                                                         *)
(* main() creates the worker task process_files(queue), runs the crawl     *)
(* driver get_trading_all_dates_and_files(queue) itself, puts the          *)
(* (None, None) sentinel and joins the worker.  Both coroutines run on one *)
(* asyncio event loop: a coroutine runs until it suspends on network or    *)
(* database I/O or on an empty queue, so one action below is one stretch   *)
(* of code between two suspension points.                                  *)
(***************************************************************************)
EXTENDS Integers, Sequences, FiniteSets, TLC

VARIABLES
    mpc,          \* position of main(): "fetch", "scan", "next", "stopped", "join",
                  \* "done", "raised"
    page_number,  \* page_number of get_trading_all_dates_and_files
    fetched,      \* page numbers requested so far, in order
    response,     \* what the last fetch brought: "none" (nothing fetched yet),
                  \* "conn", "http", "empty" (no link tag), "tags"
    seen,         \* link tags of the page being scanned that the for loop has taken
    oldSeen,      \* whether one of them carried a timestamp before the cutoff or no date
    offered,      \* the bulletins dated on or after the cutoff listed on the pages
                  \* scanned so far, in page-then-link order
    leading,      \* of those, the ones no such earlier link of their page precedes
    queue,        \* the asyncio.Queue shared by the two coroutines
    enqueued,     \* every item ever put on the queue, in order
    wpc,          \* position of process_files(): "get", "download", "extract",
                  \* "save", "construct", "commit", "done", "raised", "cancelled"
    cur,          \* (trade_date, link) the worker dequeued last
    dl,           \* outcome of download_file for cur: "none" (not yet tried), "ok",
                  \* "http" (status other than 200), "conn" (connection error)
    started,      \* every payload item the worker dequeued, in order
    disk,         \* data/oil_bulletin<date>.xls, by date
    result,       \* spimex_trading_results, the value get_data returned
    tx,           \* the session.begin() scope of save_data_to_db
    store,        \* the durable records of the database, in insertion order
    committed     \* the batches whose session.commit() returned, in order

vars == <<mpc, page_number, fetched, response, seen, oldSeen, offered, leading, queue, enqueued, wpc, cur, dl,
          started, disk, result, tx, store, committed>>

mainVars == <<mpc, page_number, fetched, response, seen, oldSeen, offered, leading, enqueued>>
workerVars == <<wpc, cur, dl, started, disk, result, tx, store, committed>>

----------------------------------------------------------------------------
(* Bounds of the model *)

\* listing pages fetched in one run
MaxFetches == 2
\* bulletin link tags of one listing page ahead of the tag the for loop
\* breaks at
MaxLinks == 2
\* largest page number a next-page control names
MaxPage == 2
\* bulletins dated on or after the cutoff that the pages of one run list
MaxItems == 2
\* table rows of a bulletin given to get_data on its own
MaxRows == 3

----------------------------------------------------------------------------
(* Dates and links *)

\* datetime.datetime(2023, 1, 1).date(), as YYYYMMDD
Cutoff == 20230101

\* A link is the 14-digit group of its file name: ymd = YYYYMMDD and
\* hms = HHMMSS; ymd = 0 stands for a file name the pattern does not match.
NoMatch == [ymd |-> 0, hms |-> 0]

Links ==
    { NoMatch,
      [ymd |-> 20221231, hms |-> 235959],
      [ymd |-> 20230101, hms |-> 0],
      [ymd |-> 20230601, hms |-> 162000],
      [ymd |-> 20231301, hms |-> 162000] }

\* re.search(r'_(\d{14})\.xls', file_link)
Matches(link) == link.ymd # 0

IsLeap(y) == (y % 4 = 0 /\ y % 100 # 0) \/ y % 400 = 0

DaysIn(y, m) ==
    IF m = 2 THEN (IF IsLeap(y) THEN 29 ELSE 28)
    ELSE IF m \in {4, 6, 9, 11} THEN 30 ELSE 31

\* datetime.datetime.strptime(date_str, '%Y%m%d%H%M%S') raises ValueError
\* unless every field is in range
StrptimeOk(link) ==
    LET y == link.ymd \div 10000
        m == (link.ymd \div 100) % 100
        d == link.ymd % 100
        hh == link.hms \div 10000
        mi == (link.hms \div 100) % 100
        ss == link.hms % 100
    IN  /\ y >= 1
        /\ m \in 1..12
        /\ d \in 1..DaysIn(y, m)
        /\ hh \in 0..23 /\ mi \in 0..59 /\ ss \in 0..59

\* .date() of the parsed timestamp, as YYYYMMDD
TradeDate(link) ==
    LET y == link.ymd \div 10000
        m == (link.ymd \div 100) % 100
        d == link.ymd % 100
    IN  y * 10000 + m * 100 + d

\* the comparison with the year of the cutoff mistyped
OnOrAfterCutoff_WrongYear(trade_date) == trade_date >= Cutoff - 10000

\* trade_date >= datetime.datetime(2023, 1, 1).date()
OnOrAfterCutoff(trade_date) == trade_date >= Cutoff

Item(trade_date, link) == [date |-> trade_date, link |-> link]

\* the (None, None) pair main() puts last
Sentinel == [date |-> -1, link |-> [ymd |-> -1, hms |-> -1]]

\* `if link is None`
IsSentinel(item) == item.link = Sentinel.link

----------------------------------------------------------------------------
(* Listing pages *)

RECURSIVE SeqsUpTo(_, _)
\* all sequences over S of length at most n
SeqsUpTo(S, n) ==
    IF n = 0 THEN {<<>>}
    ELSE LET shorter == SeqsUpTo(S, n - 1)
         IN  shorter \cup {Append(s, x) : s \in {t \in shorter : Len(t) = n - 1}, x \in S}

\* The next-page control of a page: soup.select_one('.bx-pag-next a') finds it
\* or not; re.search(r'page=page-(\d+)', href) matches or not; page is the number.
NextControls ==
    { [present |-> FALSE, numbered |-> FALSE, page |-> 0],
      [present |-> TRUE, numbered |-> FALSE, page |-> 0] }
    \cup { [present |-> TRUE, numbered |-> TRUE, page |-> n] : n \in 1..MaxPage }

\* What fetch(session, url) finds for a listing page: a connection error, a
\* status other than 200, a 200 body without link tags, a 200 body with some.
PageOutcomes == {"conn", "http", "empty", "tags"}

\* the loop body indexing the match without testing it
Verdict_NoMatchRaises(link) ==
    IF ~Matches(link) THEN "raise"
    ELSE IF ~StrptimeOk(link) THEN "raise"
    ELSE IF OnOrAfterCutoff(TradeDate(link)) THEN "put"
    ELSE "break"

\* the loop body with `continue` where the code has `break`
Verdict_NoBreak(link) ==
    IF ~Matches(link) THEN "skip"
    ELSE IF ~StrptimeOk(link) THEN "raise"
    ELSE IF OnOrAfterCutoff(TradeDate(link)) THEN "put"
    ELSE "skip"

\* What the body of the for loop does with one link tag: "skip" it (no
\* 14-digit group), "raise" (strptime fails), "put" it on the queue, or
\* "break" out of the loop.
Verdict(link) ==
    IF ~Matches(link) THEN "skip"
    ELSE IF ~StrptimeOk(link) THEN "raise"
    ELSE IF OnOrAfterCutoff(TradeDate(link)) THEN "put"
    ELSE "break"

\* A link whose file name carries a 14-digit timestamp that is a date
Dated(link) == Matches(link) /\ StrptimeOk(link)

\* a link dated on or after 2023-01-01, compared field by field
IsInRange(link) ==
    /\ Dated(link)
    /\ LET y == link.ymd \div 10000
           m == (link.ymd \div 100) % 100
           d == link.ymd % 100
       IN  \/ y > 2023
           \/ y = 2023 /\ m > 1
           \/ y = 2023 /\ m = 1 /\ d >= 1

\* a link carrying 14 digits that are dated before the cutoff or are no date
IsOld(link) == Matches(link) /\ ~IsInRange(link)

\* the items for the in-range links among `links`, in order
InRange(links) ==
    LET keep == SelectSeq(links, IsInRange)
    IN  [i \in 1..Len(keep) |-> [date |-> keep[i].ymd, link |-> keep[i]]]

\* the links among `links` that come before the first old one
BeforeFirstOld(links) ==
    LET olds == {i \in 1..Len(links) : IsOld(links[i])}
    IN  IF olds = {} THEN links
        ELSE SubSeq(links, 1, (CHOOSE i \in olds : \A j \in olds : i <= j) - 1)

\* Where main() goes with the next-page control of the page.
AfterNext(nx) == IF nx.present /\ nx.numbered THEN "fetch" ELSE "stopped"

----------------------------------------------------------------------------
(* Bulletin files *)

\* A cell of the contract-count column: a number, or text / an empty cell.
Num(v) == [num |-> TRUE, v |-> v]
NotNum == [num |-> FALSE, v |-> 0]

\* the missing value of a DataFrame
NaN == "NaN"

\* Cell texts pd.read_excel turns into NaN (its default na_values); the empty
\* text is what an empty cell and a cell holding "" both come in as.
StrNaValues == {"", "NaN", "nan", "NA", "N/A", "n/a", "NULL", "null", "None", "#N/A"}

\* pd.read_excel on one cell of the instrument-name column
ReadCell(cell) == IF cell \in StrNaValues THEN NaN ELSE cell

\* Rows of the table as the sheet holds them: the name cell as text ("" for an
\* empty cell), the contract-count cell as above.
RowA == [code |-> "A100ANK060F", name |-> "fuel A", cnt |-> Num(3)]
RowB == [code |-> "A592UFM060F", name |-> "fuel B", cnt |-> Num(1)]
RowZero == [code |-> "DSC5BAZ065J", name |-> "fuel C", cnt |-> Num(0)]
RowNegative == [code |-> "DN", name |-> "fuel N", cnt |-> Num(-1)]
RowText == [code |-> "DT", name |-> "fuel D", cnt |-> NotNum]
RowNoName == [code |-> "DE", name |-> "", cnt |-> Num(2)]
RowBlankName == [code |-> "DB", name |-> " ", cnt |-> Num(2)]

Rows == {RowA, RowB, RowZero, RowNegative, RowText, RowNoName, RowBlankName}

\* no file of that name
Absent == [exists |-> FALSE, marker |-> FALSE, rows |-> <<>>]
\* a bulletin with the marker row and two tradable rows
GoodFile == [exists |-> TRUE, marker |-> TRUE, rows |-> <<RowA, RowZero, RowB>>]
\* a bulletin whose rows are all filtered out
EmptyFile == [exists |-> TRUE, marker |-> TRUE, rows |-> <<RowText, RowNoName>>]
\* a file without the marker cell
NoMarkerFile == [exists |-> TRUE, marker |-> FALSE, rows |-> <<RowA>>]

Files == {GoodFile, EmptyFile, NoMarkerFile}

\* What session.get(file_link) can bring back for a bulletin.
FileResponses ==
    { [status |-> "ok", body |-> f] : f \in Files }
    \cup { [status |-> st, body |-> Absent] : st \in {"http", "conn"} }

\* the dates a file can be named after
FileDates == { TradeDate(l) : l \in {k \in Links : Matches(k) /\ StrptimeOk(k)} }

\* pd.to_numeric(column, errors='coerce') on one cell
ToNumericCoerce(cell) == IF cell.num THEN cell ELSE NotNum

\* the mask without the notna() test of the name
Keeps_NameUnchecked(row) ==
    /\ ToNumericCoerce(row.cnt).num
    /\ ToNumericCoerce(row.cnt).v > 0

\* the boolean mask of filtered_data for one row
Keeps(row) ==
    /\ ToNumericCoerce(row.cnt).num
    /\ ToNumericCoerce(row.cnt).v > 0
    /\ ReadCell(row.name) # NaN

\* one row of the DataFrame get_data builds
ResultRow(row, trade_date) ==
    [exchange_product_id |-> row.code,
     exchange_product_name |-> ReadCell(row.name),
     count |-> ToNumericCoerce(row.cnt).v,
     date |-> trade_date]

RECURSIVE MapRows(_, _)
MapRows(rows, trade_date) ==
    IF rows = <<>> THEN <<>>
    ELSE <<ResultRow(Head(rows), trade_date)>> \o MapRows(Tail(rows), trade_date)

None == [kind |-> "none", rows |-> <<>>]

\* get_data(trade_date) on the file now on disk under that date
get_data(file, trade_date) ==
    IF ~file.exists THEN None
    ELSE IF ~file.marker THEN [kind |-> "ValueError", rows |-> <<>>]
    ELSE LET filtered_data == SelectSeq(file.rows, Keeps)
         IN  IF filtered_data = <<>> THEN None
             ELSE [kind |-> "rows", rows |-> MapRows(filtered_data, trade_date)]

----------------------------------------------------------------------------
(* The database session *)

NoTx == [open |-> FALSE, pending |-> <<>>]

\* a failed batch whose records added so far are flushed
Rollback_KeepsAdded(st, pending) == st \o pending

\* session.rollback(): what the store holds after a failed batch
Rollback(st, pending) == st

\* a commit that leaves out the rows the table already holds
Commit_SkipsKnownRows(st, pending) ==
    st \o SelectSeq(pending, LAMBDA r : \A i \in 1..Len(st) : st[i] # r)

\* a commit that replaces what the table held
Commit_KeepsLast(st, pending) == pending

\* session.commit(): what the store holds after a committed batch
Commit(st, pending) == st \o pending

----------------------------------------------------------------------------
(* Initial state: main() has dropped and re-created the table, made the     *)
(* queue and created the worker task; the crawl is about to fetch page 1.  *)

Init ==
    /\ mpc = "fetch"
    /\ page_number = 1
    /\ seen = 0
    /\ oldSeen = FALSE
    /\ fetched = <<>>
    /\ response = "none"
    /\ offered = <<>>
    /\ leading = <<>>
    /\ queue = <<>>
    /\ enqueued = <<>>
    /\ wpc = "get"
    /\ cur = Sentinel
    /\ dl = "none"
    /\ started = <<>>
    /\ disk = [d \in FileDates |-> Absent]
    /\ result = None
    /\ tx = NoTx
    /\ store = <<>>
    /\ committed = <<>>

----------------------------------------------------------------------------
(* main() and the crawl driver *)

\* the sentinel put inside the while loop, which then goes on
AfterSentinel_InLoop == "fetch"

\* where main() goes once the sentinel is on the queue
AfterSentinel == "join"

\* a page without link tags treated as a page whose for loop has nothing to do
AfterFetch_EmptyScanned(outcome) ==
    CASE outcome = "conn" -> "raised"
      [] outcome = "http" -> "stopped"
      [] outcome = "empty" -> "next"
      [] outcome = "tags" -> "scan"

\* Where main() goes with what fetch brought: session.get raising leaves
\* main(), `if response:` failing and `if not link_tags:` both break.
AfterFetch(outcome) ==
    CASE outcome = "conn" -> "raised"
      [] outcome = "http" -> "stopped"
      [] outcome = "empty" -> "stopped"
      [] outcome = "tags" -> "scan"

\* response = await fetch(session, ...page=page-{page_number}) and the test
\* for link tags
FetchPage ==
    /\ mpc = "fetch"
    /\ Len(fetched) < MaxFetches
    /\ fetched' = Append(fetched, page_number)
    /\ \E outcome \in PageOutcomes :
        /\ response' = outcome
        /\ mpc' = AfterFetch(outcome)
    /\ seen' = 0
    /\ oldSeen' = FALSE
    /\ UNCHANGED <<page_number, offered, leading, queue, enqueued>>
    /\ UNCHANGED workerVars

\* a break that leaves the while loop too
AfterVerdict_BreakEndsCrawl(v) ==
    CASE v = "raise" -> "raised"
      [] v = "break" -> "stopped"
      [] OTHER -> "scan"

\* Where main() goes after one pass of the for loop: strptime raising leaves
\* main(), `break` leaves the for loop only, otherwise the loop goes on.
AfterVerdict(v) ==
    CASE v = "raise" -> "raised"
      [] v = "break" -> "next"
      [] OTHER -> "scan"

\* One pass of `for link_tag in link_tags`.  queue.put on an unbounded queue
\* never suspends.  `rest` are the tags a break leaves unscanned.
ScanLink ==
    /\ mpc = "scan"
    /\ \E link \in Links :
       \E rest \in IF Verdict(link) = "break" /\ seen < MaxLinks
                   THEN SeqsUpTo(Links, MaxLinks - seen - 1)
                   ELSE {<<>>} :
        LET v == Verdict(link)
            item == Item(TradeDate(link), link)
        IN  /\ seen < MaxLinks \/ v = "break"
            /\ seen' = seen + 1
            /\ oldSeen' = (oldSeen \/ \E i \in 1..Len(<<link>> \o rest) : IsOld((<<link>> \o rest)[i]))
            /\ offered' = offered \o InRange(<<link>> \o rest)
            /\ Len(offered') <= MaxItems
            /\ leading' = IF oldSeen THEN leading
                           ELSE leading \o InRange(BeforeFirstOld(<<link>> \o rest))
            /\ mpc' = AfterVerdict(v)
            /\ queue' = IF v = "put" THEN Append(queue, item) ELSE queue
            /\ enqueued' = IF v = "put" THEN Append(enqueued, item) ELSE enqueued
    /\ UNCHANGED <<page_number, fetched, response>>
    /\ UNCHANGED workerVars

\* The loop is over (no tag left, or break): read the next-page control.
NextPage ==
    /\ \/ mpc = "scan" /\ seen >= 1
       \/ mpc = "next"
    /\ \E nx \in NextControls :
        /\ mpc' = AfterNext(nx)
        /\ page_number' = IF AfterNext(nx) = "fetch" THEN nx.page ELSE page_number
    /\ seen' = 0
    /\ oldSeen' = FALSE
    /\ UNCHANGED <<fetched, response, offered, leading, queue, enqueued>>
    /\ UNCHANGED workerVars

\* await queue.put((None, None))
PutSentinel ==
    /\ mpc = "stopped"
    /\ queue' = Append(queue, Sentinel)
    /\ enqueued' = Append(enqueued, Sentinel)
    /\ mpc' = AfterSentinel
    /\ UNCHANGED <<page_number, fetched, response, seen, oldSeen, offered, leading>>
    /\ UNCHANGED workerVars

\* a join that waits for the worker to return
JoinReady_ReturnedOnly(w) == w = "done"

\* `await processing_task` resumes once the task is done, by return or by
\* an exception
JoinReady(w) == w \in {"done", "raised"}

\* await processing_task: returns when the worker returned, re-raises the
\* worker's exception when the worker raised
Join ==
    /\ mpc = "join"
    /\ JoinReady(wpc)
    /\ mpc' = IF wpc = "done" THEN "done" ELSE "raised"
    /\ UNCHANGED <<page_number, fetched, response, seen, oldSeen, offered, leading, queue, enqueued>>
    /\ UNCHANGED workerVars

\* asyncio.run cancels the tasks still pending when main() raised
CancelWorker ==
    /\ mpc = "raised"
    /\ wpc \notin {"done", "raised", "cancelled"}
    /\ wpc' = "cancelled"
    /\ tx' = NoTx
    /\ store' = Rollback(store, tx.pending)
    /\ UNCHANGED <<cur, dl, started, disk, result, queue, committed>>
    /\ UNCHANGED mainVars

----------------------------------------------------------------------------
(* process_files, the worker *)

\* the worker runs only while the event loop of asyncio.run(main()) does
Running == mpc # "raised"

\* a LIFO queue
GetIndex_Last(q) == Len(q)

\* asyncio.Queue.get takes the item at this position of the queue
GetIndex(q) == 1

RemoveAt(q, i) == SubSeq(q, 1, i - 1) \o SubSeq(q, i + 1, Len(q))

\* trade_date, link = await queue.get(); if link is None: break
QueueGet ==
    /\ Running
    /\ wpc = "get"
    /\ queue # <<>>
    /\ LET item == queue[GetIndex(queue)]
       IN  /\ queue' = RemoveAt(queue, GetIndex(queue))
           /\ IF IsSentinel(item)
              THEN /\ wpc' = "done"
                   /\ UNCHANGED <<cur, dl, started>>
              ELSE /\ wpc' = "download"
                   /\ cur' = item
                   /\ dl' = "none"
                   /\ started' = Append(started, item)
    /\ UNCHANGED <<disk, result, tx, store, committed>>
    /\ UNCHANGED mainVars

\* await download_file(session, trade_date, link)
DownloadFile ==
    /\ Running
    /\ wpc = "download"
    /\ \E resp \in FileResponses :
        /\ dl' = resp.status
        /\ IF resp.status = "conn"
           THEN /\ wpc' = "raised"
                /\ disk' = disk
           ELSE IF resp.status = "ok"
           THEN /\ wpc' = "extract"
                /\ disk' = [disk EXCEPT ![cur.date] = resp.body]
           ELSE /\ wpc' = "extract"
                /\ disk' = disk
    /\ UNCHANGED <<cur, started, result, tx, store, queue, committed>>
    /\ UNCHANGED mainVars

\* the format error caught in the worker loop
AfterGetData_Caught(r) == IF r.kind = "ValueError" THEN "get" ELSE "save"

\* where the worker goes with what get_data returned or raised
AfterGetData(r) == IF r.kind = "ValueError" THEN "raised" ELSE "save"

\* spimex_trading_results = await get_data(trade_date)
GetData ==
    /\ Running
    /\ wpc = "extract"
    /\ LET r == get_data(disk[cur.date], cur.date)
       IN  /\ wpc' = AfterGetData(r)
           /\ result' = IF r.kind = "ValueError" THEN result ELSE r
    /\ UNCHANGED <<cur, dl, started, disk, tx, store, queue, committed>>
    /\ UNCHANGED mainVars

\* save_data_to_db started as a task of its own and not awaited
AfterBegin_NotAwaited == "get"

\* where the worker goes once the transactional scope is open
AfterBegin == "construct"

\* save_data_to_db up to `async with session.begin()`
SaveBegin ==
    /\ Running
    /\ wpc = "save"
    /\ tx' = [open |-> TRUE, pending |-> <<>>]
    /\ wpc' = AfterBegin
    /\ UNCHANGED <<cur, dl, started, disk, result, store, queue, committed>>
    /\ UNCHANGED mainVars

\* The for loop of save_data_to_db: one record per row added to the session.
\* iterrows() on None raises, and so may the construction of any record; the
\* except clause rolls the batch back.
Construct ==
    /\ Running
    /\ wpc = "construct"
    /\ \/ /\ result.kind = "rows"
          /\ tx' = [open |-> TRUE, pending |-> result.rows]
          /\ wpc' = "commit"
          /\ store' = store
       \/ \E k \in 1..Len(result.rows) :
            /\ store' = Rollback(store, SubSeq(result.rows, 1, k - 1))
            /\ tx' = NoTx
            /\ wpc' = "get"
       \/ /\ result.kind = "none"
          /\ store' = Rollback(store, <<>>)
          /\ tx' = NoTx
          /\ wpc' = "get"
    /\ UNCHANGED <<cur, dl, started, disk, result, queue, committed>>
    /\ UNCHANGED mainVars

\* await session.commit(), or the rollback of the except clause when it fails
CommitBatch ==
    /\ Running
    /\ wpc = "commit"
    /\ \/ /\ store' = Commit(store, tx.pending)
          /\ committed' = Append(committed, tx.pending)
       \/ /\ store' = Rollback(store, tx.pending)
          /\ committed' = committed
    /\ tx' = NoTx
    /\ wpc' = "get"
    /\ UNCHANGED <<cur, dl, started, disk, result, queue>>
    /\ UNCHANGED mainVars

----------------------------------------------------------------------------

\* get_data called on its own: the worker is about to extract from a bulletin
\* it has just downloaded, the file holding the marker row and any rows.
ExtractInit ==
    \E link \in {l \in Links : IsInRange(l)} :
    \E rows \in SeqsUpTo(Rows, MaxRows) :
        LET item == Item(TradeDate(link), link)
        IN  /\ mpc = "scan"
            /\ page_number = 1
            /\ fetched = <<1>>
            /\ response = "tags"
            /\ seen = 1
            /\ oldSeen = FALSE
            /\ offered = <<item>>
            /\ leading = <<item>>
            /\ queue = <<>>
            /\ enqueued = <<item>>
            /\ wpc = "extract"
            /\ cur = item
            /\ dl = "ok"
            /\ started = <<item>>
            /\ disk = [d \in FileDates |->
                         IF d = item.date
                         THEN [exists |-> TRUE, marker |-> TRUE, rows |-> rows]
                         ELSE Absent]
            /\ result = None
            /\ tx = NoTx
            /\ store = <<>>
            /\ committed = <<>>

ExtractSpec == ExtractInit /\ [][GetData]_vars

Next ==
    \/ FetchPage
    \/ ScanLink
    \/ NextPage
    \/ PutSentinel
    \/ Join
    \/ CancelWorker
    \/ QueueGet
    \/ DownloadFile
    \/ GetData
    \/ SaveBegin
    \/ Construct
    \/ CommitBatch

Spec == Init /\ [][Next]_vars

\* The run against a site whose page 1 lists two bulletins dated on or after
\* the cutoff and then one dated before it and has no usable next-page
\* control, every bulletin downloading as a file with valid rows and the
\* database accepting every batch.
ScenarioStep ==
    /\ fetched' # fetched => response' = "tags"
    /\ (seen' # seen /\ seen' \in {1, 2}) => Len(enqueued') = Len(enqueued) + 1
    /\ seen' = 3 => (mpc' = "next" /\ offered' = offered)
    /\ mpc = "scan" => mpc' \in {"scan", "next"}
    /\ mpc = "next" => mpc' \in {"next", "stopped"}
    /\ (dl' # dl /\ dl' # "none") => (dl' = "ok" /\ disk'[cur.date] = GoodFile)
    /\ wpc = "construct" => wpc' \in {"construct", "commit"}
    /\ (wpc = "commit" /\ wpc' # "commit") => committed' # committed

ScenarioNext ==
    \/ FetchPage /\ ScenarioStep
    \/ ScanLink /\ ScenarioStep
    \/ NextPage /\ ScenarioStep
    \/ PutSentinel /\ ScenarioStep
    \/ Join /\ ScenarioStep
    \/ QueueGet /\ ScenarioStep
    \/ DownloadFile /\ ScenarioStep
    \/ GetData /\ ScenarioStep
    \/ SaveBegin /\ ScenarioStep
    \/ Construct /\ ScenarioStep
    \/ CommitBatch /\ ScenarioStep

ScenarioSpec == Init /\ [][ScenarioNext]_vars

\* The event loop resumes every coroutine whose await is over: a request
\* ends with a response or an exception (aiohttp's total timeout), a database
\* call returns or raises, a get on a queue that holds an item returns it.
\* Each coroutine is at one place at a time, so one condition per coroutine
\* covers its steps.
FairSpec ==
    /\ Spec
    /\ WF_vars(PutSentinel \/ Join)
    /\ WF_vars(QueueGet \/ DownloadFile \/ GetData \/ SaveBegin \/ Construct \/ CommitBatch)

----------------------------------------------------------------------------
(* Properties *)

IsPayload(item) == ~IsSentinel(item)

Payloads(items) == SelectSeq(items, IsPayload)

HasSentinel(items) == \E i \in 1..Len(items) : IsSentinel(items[i])

CrawlReturned == mpc \in {"stopped", "join", "done"}

\* C1: every (trade_date, file_url) item the crawl driver has put on the
\* queue has trade_date on or after the cutoff 2023-01-01.
C1_NoDateBeforeCutoff ==
    \A i \in 1..Len(enqueued) :
        IsPayload(enqueued[i]) => enqueued[i].date >= Cutoff

\* a page listed an old link before an in-range link, and an item was put
C1_Witness ==
    /\ Len(offered) > Len(leading)
    /\ Len(Payloads(enqueued)) >= 1

\* C2 as claimed: when the crawl driver has returned, every link of the pages
\* it scanned that is dated on or after the cutoff has been put on the queue
\* exactly once, in page-then-link order, whatever the order within a page.
C2_EveryInRangeLinkEnqueued ==
    CrawlReturned => Payloads(enqueued) = offered

\* C2 as amended: when the crawl driver has returned, the queue has received
\* exactly once and in page-then-link order every link dated on or after the
\* cutoff that no link dated before the cutoff precedes on its page, and
\* nothing else.
C2_LeadingInRangeLinksEnqueued ==
    CrawlReturned => Payloads(enqueued) = leading

\* two pages scanned, a link was put, another in-range link came after an old one
C2_Witness ==
    /\ CrawlReturned
    /\ Len(fetched) = 2
    /\ Len(leading) >= 1
    /\ Len(offered) > Len(leading)

\* C3: the sentinel is put at most once and only when the crawl driver is
\* over, nothing is put after it, only main() puts and only the worker gets.
C3_SentinelOnceAndLast ==
    /\ [](Cardinality({i \in 1..Len(enqueued) : IsSentinel(enqueued[i])}) <= 1)
    /\ [](HasSentinel(enqueued) => mpc \in {"join", "done", "raised"})
    /\ [][HasSentinel(enqueued) => enqueued' = enqueued]_vars
    /\ [][workerVars' # workerVars =>
            /\ enqueued' = enqueued
            /\ queue' = queue \/ \E i \in 1..Len(queue) : queue' = RemoveAt(queue, i)]_vars
    /\ [][mainVars' # mainVars =>
            /\ Len(queue') >= Len(queue)
            /\ SubSeq(queue', 1, Len(queue)) = queue]_vars

\* the worker met the sentinel behind two payload items
C3_Witness ==
    /\ wpc = "done"
    /\ Len(started) = 2
    /\ HasSentinel(enqueued)

\* C4 as claimed: after a non-200 download the worker abandons the item:
\* get_data is not called for it and save_data_to_db is not entered.
C4_FailedDownloadAbandoned ==
    dl = "http" => wpc \notin {"save", "construct", "commit"}

\* C5 as claimed: when get_data returned None for a downloaded file,
\* save_data_to_db is not run and no transactional scope is opened.
C5_NoDataSkipsPersistence ==
    (dl = "ok" /\ (wpc \in {"construct", "commit"} \/ tx.open)) => result.kind = "rows"

\* C6 as claimed: a failed download never ends the worker: the worker task
\* raises only while it works on an item whose download succeeded.
C6_WorkerSurvivesDownloadFailure ==
    wpc = "raised" => dl = "ok"

\* C7: a format error of get_data ends the worker task for good: nothing
\* queued behind the item is started, extracted or persisted, and main()
\* never completes.
C7_FormatErrorEndsTheWorker ==
    /\ [][(/\ wpc = "extract"
           /\ wpc' \notin {"extract", "cancelled"}
           /\ disk[cur.date].exists
           /\ ~disk[cur.date].marker) => wpc' = "raised"]_vars
    /\ [][wpc = "raised" =>
            /\ wpc' = "raised"
            /\ UNCHANGED <<cur, started, disk, result, tx, store>>
            /\ Len(queue') >= Len(queue)]_vars
    /\ [](wpc = "raised" => mpc # "done")

\* the worker died on a downloaded file, items stay queued, main() is over
C7_Witness ==
    /\ wpc = "raised"
    /\ dl = "ok"
    /\ mpc = "raised"
    /\ Len(Payloads(queue)) >= 1

\* C8: what the worker has taken is a prefix of what was put, in the same
\* order, each item once; every record stored is of an item it took.
C8_FifoPrefix ==
    /\ (IF wpc = "done" THEN Append(started, Sentinel) ELSE started) \o queue = enqueued
    /\ \A i \in 1..Len(store) : \E j \in 1..Len(started) : started[j].date = store[i].date

\* two different items taken in turn and a batch stored
C8_Witness ==
    /\ Len(started) = 2
    /\ started[1] # started[2]
    /\ store # <<>>

\* C9: no item is taken while the transactional scope of the item before
\* it is open, and outside save_data_to_db no scope is open.
C9_OneItemAtATime ==
    /\ [](wpc \in {"get", "download", "extract", "save", "done"} => ~tx.open)
    /\ [][started' # started =>
            /\ wpc = "get"
            /\ ~tx.open
            /\ Len(started') = Len(started) + 1]_vars

\* a batch is about to be committed while the next item waits in the queue
C9_Witness ==
    /\ wpc = "commit"
    /\ tx.open
    /\ queue # <<>>
    /\ IsPayload(Head(queue))
    /\ mpc = "scan"

\* C10: every step leaves the store as it was or appends one record for
\* every row of the batch, in one commit; no scope stays open afterwards.
C10_AllOrNothing ==
    /\ [][\/ store' = store
          \/ /\ wpc = "commit"
             /\ result.kind = "rows"
             /\ store' = store \o result.rows]_vars
    /\ [](wpc \notin {"construct", "commit"} => ~tx.open)

\* save_data_to_db returned from a batch with rows and stored none of them
C10_Witness ==
    /\ Len(started) = 1
    /\ wpc = "get"
    /\ dl = "ok"
    /\ result.kind = "rows"
    /\ Len(result.rows) >= 2
    /\ store = <<>>

\* C11: when a fetched page has no bulletin link tag the crawl driver stops
\* there without raising: that step puts nothing, and from then on no page is
\* fetched, no payload item is put, main() goes on to the sentinel only, and
\* no step of main() takes an item off the queue.
C11_NoLinkTagsStopsCrawl ==
    /\ [][(mpc = "fetch" /\ response' = "empty" /\ fetched' # fetched) =>
            /\ mpc' = "stopped"
            /\ queue' = queue
            /\ enqueued' = enqueued]_vars
    /\ [][(response = "empty" /\ mpc \in {"stopped", "join", "done"}) =>
            /\ fetched' = fetched
            /\ response' = response
            /\ Payloads(enqueued') = Payloads(enqueued)
            /\ (mpc = "stopped" => mpc' \in {"stopped", "join"})
            /\ (workerVars' = workerVars => SubSeq(queue', 1, Len(queue)) = queue)]_vars
    /\ [](response = "empty" => mpc \in {"stopped", "join", "done", "raised"})
    /\ []((response = "empty" /\ mpc = "raised") => wpc = "raised")

\* page 2 had no link tag; an item of page 1 is still queued
C11_Witness ==
    /\ response = "empty"
    /\ mpc = "stopped"
    /\ Len(fetched) = 2
    /\ Len(Payloads(queue)) >= 1

\* C12 as claimed: a failed fetch of a listing page, be it a status other
\* than 200 or a connection error, ends the crawl without raising: main()
\* goes on to put the sentinel and raises only what the worker raised.
C12_FetchFailureEndsCrawlQuietly ==
    response \in {"http", "conn"} =>
        \/ mpc \in {"stopped", "join", "done"}
        \/ mpc = "raised" /\ wpc = "raised"

\* a source row the claim wants kept out: contract count not a number,
\* missing or not positive, or instrument name missing or empty
Unwanted(row) ==
    \/ ~row.cnt.num
    \/ row.cnt.v <= 0
    \/ row.name = ""

\* C13: every row of a result of get_data has count > 0 and a name that is
\* neither missing nor empty, the result is not empty, and no source row
\* with a non-numeric, missing or non-positive contract count or a missing or
\* empty instrument name is in it.
C13_OnlyTradedNamedRows ==
    (wpc = "save" /\ result.kind = "rows") =>
        /\ result.rows # <<>>
        /\ \A i \in 1..Len(result.rows) :
              /\ result.rows[i].count > 0
              /\ result.rows[i].exchange_product_name \notin {"", NaN}
        /\ \A j \in 1..Len(disk[cur.date].rows) :
              Unwanted(disk[cur.date].rows[j]) =>
                \A i \in 1..Len(result.rows) :
                    result.rows[i].exchange_product_id # disk[cur.date].rows[j].code

\* get_data kept one row of a bulletin that also had a row without a name
\* and a row with a count that is not positive
C13_Witness ==
    /\ wpc = "save"
    /\ result.kind = "rows"
    /\ Len(result.rows) = 1
    /\ \E j \in 1..Len(disk[cur.date].rows) : disk[cur.date].rows[j].name = ""
    /\ \E j \in 1..Len(disk[cur.date].rows) :
          disk[cur.date].rows[j].cnt.num /\ disk[cur.date].rows[j].cnt.v <= 0

\* the records of the rows of GoodFile that have a positive count and a name
ValidBatch(trade_date) == <<ResultRow(RowA, trade_date), ResultRow(RowB, trade_date)>>

\* C14: on the site of ScenarioStep the run puts exactly the two in-range
\* items and then the sentinel, and when main() is done the store holds
\* exactly one batch for each of the two downloads, in order, also when the
\* two items carry the same date.
C14_TwoItemsThenSentinelTwoBatches ==
    /\ mpc \in {"stopped", "join", "done"} =>
          /\ Len(offered) = 2
          /\ Payloads(enqueued) = offered
          /\ \A i \in 1..2 : enqueued[i].date >= Cutoff
    /\ mpc \in {"join", "done"} => enqueued = Append(offered, Sentinel)
    /\ mpc = "done" =>
          /\ started = offered
          /\ store = ValidBatch(offered[1].date) \o ValidBatch(offered[2].date)

\* the run is over, both items were of the same date, four records are stored
C14_Witness ==
    /\ mpc = "done"
    /\ fetched = <<1>>
    /\ Len(enqueued) = 3
    /\ enqueued[1].date = enqueued[2].date
    /\ Len(store) = 4

\* C15: the pass of the for loop that meets a link dated before the cutoff
\* puts nothing and ends the scan of the page: nothing is put before the
\* next-page control is read, so the in-range links that follow on the page
\* are never put; the control is then read, and a numbered one is followed.
C15_BreakEndsPageOnly ==
    /\ [][(mpc = "scan" /\ oldSeen' /\ mpc' # "raised") =>
            /\ mpc' = "next"
            /\ enqueued' = enqueued
            /\ queue' = queue]_vars
    /\ [][mpc = "next" =>
            /\ enqueued' = enqueued
            /\ fetched' = fetched
            /\ mpc' \in {"next", "fetch", "stopped"}]_vars
    /\ [](mpc = "next" => Payloads(enqueued) = leading)
    /\ [](mpc = "next" =>
            \A n \in 1..MaxPage : ENABLED (NextPage /\ mpc' = "fetch" /\ page_number' = n))

\* page 1 listed an in-range link behind an old one, and page 2 was fetched
C15_Witness ==
    /\ Len(fetched) = 2
    /\ mpc = "scan"
    /\ seen = 0
    /\ Len(offered) > Len(leading)

\* C16: a link whose file name has no 14-digit group raises nothing and is
\* not put, and the for loop goes on: such a pass changes only the count of
\* tags taken.  A next-page control whose URL has no page number ends the
\* crawl, and does so only once the for loop of the page is over: that step
\* puts nothing and fetches nothing.
C16_NoMatchSkippedBadNextStops ==
    /\ [](\A l \in Links : ~Matches(l) =>
            /\ Verdict(l) \notin {"put", "raise", "break"}
            /\ AfterVerdict(Verdict(l)) = "scan")
    /\ [][(mpc = "scan" /\ seen' = seen + 1 /\ enqueued' = enqueued /\ ~oldSeen') =>
            /\ mpc' = "scan"
            /\ UNCHANGED <<queue, offered, leading, fetched, page_number>>]_vars
    /\ [](\A nx \in NextControls : (nx.present /\ ~nx.numbered) => AfterNext(nx) = "stopped")
    /\ [][(mpc \in {"scan", "next"} /\ mpc' = "stopped") =>
            /\ mpc = "next" \/ seen >= 1
            /\ UNCHANGED <<queue, enqueued, fetched, page_number>>]_vars
    /\ [](mpc = "next" => ENABLED (NextPage /\ mpc' = "stopped"))

\* two tags of a page taken, one of them put, none of them old: the other
\* one had no 14-digit group, and the loop is still scanning
C16_Witness ==
    /\ mpc = "scan"
    /\ seen = 2
    /\ ~oldSeen
    /\ Len(enqueued) = 1
    /\ offered = leading
    /\ Len(fetched) = 1

RECURSIVE Concat(_)
\* the batches of a sequence of batches, one after the other
Concat(batches) ==
    IF batches = <<>> THEN <<>> ELSE Head(batches) \o Concat(Tail(batches))

\* C17: the store holds one record for every row of every batch whose commit
\* returned, once per commit and in commit order, whether or not the same
\* rows were committed before; a commit of rows always makes the store grow.
C17_NoDeduplication ==
    /\ [](store = Concat(committed))
    /\ [](\A i \in 1..Len(committed) : committed[i] # <<>>)
    /\ [][committed' # committed =>
            /\ store' # store
            /\ Len(store') = Len(store) + Len(result.rows)]_vars

\* the same rows were committed twice and every one of them is stored twice
C17_Witness ==
    /\ Len(committed) = 2
    /\ committed[1] = committed[2]
    /\ Len(committed[1]) = 2
    /\ Len(store) = 4
    /\ store[1] = store[3]
    /\ store[2] = store[4]

\* C18 as claimed: the crawl driver requests every page number at most once,
\* also when a next-page control names the page it is on or an earlier one.
C18_EachPageFetchedOnce ==
    \A i, j \in 1..Len(fetched) : fetched[i] = fetched[j] => i = j

\* C19 as claimed: when the worker extracts for an item, the file of the
\* item's date is there only if the download of that very item wrote it.
C19_ExtractsOwnDownload ==
    (wpc = "extract" /\ disk[cur.date].exists) => dl = "ok"

\* C20: whatever the worker is doing, the crawl driver can take its next
\* step and a put of a payload item or of the sentinel goes through at once;
\* main() ends the join by returning only when the worker returned at the
\* sentinel and by raising only when the worker raised; and once the crawl
\* has stopped main() gets to its end.
C20_MainNeverWaitsForever ==
    /\ []((mpc = "fetch" /\ Len(fetched) < MaxFetches) => ENABLED FetchPage)
    /\ []((mpc = "scan" /\ seen < MaxLinks /\ Len(offered) < MaxItems) =>
            ENABLED (ScanLink /\ Len(queue') = Len(queue) + 1))
    /\ [](mpc = "next" => ENABLED NextPage)
    /\ [](mpc = "stopped" => ENABLED (PutSentinel /\ queue' = Append(queue, Sentinel)))
    /\ [][(mpc = "join" /\ mpc' = "done") => wpc = "done"]_vars
    /\ [][(mpc = "join" /\ mpc' = "raised") => wpc = "raised"]_vars
    /\ (mpc = "stopped") ~> (mpc \in {"done", "raised"})

\* main() raised at the join what the worker had raised with the sentinel
\* still behind a payload item in the queue
C20_Witness ==
    /\ mpc = "raised"
    /\ wpc = "raised"
    /\ response # "conn"
    /\ Len(queue) >= 2
    /\ IsSentinel(queue[Len(queue)])

====
